---- MODULE Spec2Model ----
(***************************************************************************)
(* A model of bevy_entitiles: the Tilemap tile grid (tilemap/map.rs), the  *)
(* texture-usage wait of a freshly built tilemap, the scheduling of the     *)
(* render systems (render/mod.rs), the LDtk loader (ldtk/): the level       *)
(* manager and the layer builder, and the Tiled loader's resources         *)
(* (tiled/resources.rs): the map manager and the tileset lookup.           *)
(***************************************************************************)
EXTENDS Integers, Sequences, FiniteSets, TLC

\* ------------------------------------------------------------------ bounds
\* largest width of a tilemap, and largest x coordinate given as an input
MaxWidth == 1
\* largest height of a tilemap, and largest y coordinate given as an input
MaxHeight == 2
\* number of tile entities the world may allocate in one run
MaxEntity == 2
\* number of tilemaps built in the texture-usage model
MaxTilemap == 2
\* number of image assets in the texture-usage model
MaxImage == 2
\* number of render chunks in the frame model
MaxChunk == 1
\* largest cell coordinate of a layer tilemap (cells lie on one row)
MaxCell == 2
\* largest cell coordinate handed to index_to_world
MaxIndex == 2
\* largest number of tags of an LDtk entity instance
MaxTags == 2
\* largest width and height of the tilemaps built with a small render chunk size
MaxSide == 11
\* largest number of static layers set_tile stacks in one cell
MaxStack == 2
\* number of level entities the level manager may spawn in one run
MaxSpawn == 3
\* largest number of levels handed to load_many
MaxLevels == 2
\* largest number of tilesets a Tiled map refers to
MaxTilesets == 2
\* largest first_gid of a tileset of a Tiled map
MaxGid == 3
\* number of map entities the Tiled manager may spawn in one run
MaxTiledSpawn == 3
\* number of reload_xml calls in one run
MaxReload == 2

\* ------------------------------------------------------------------ state
VARIABLES
    tilemap,    \* the Tilemap value being edited: [size, tiles]
    world,      \* the ECS world the Commands act on: [tiles, next]
    panicked,   \* TRUE once an operation panicked (the process aborts)
    lastOp,     \* history: the last mutation; the arguments of a set or remove are kept
                \* when it changed something
    despawned,  \* history: how many tile entities the last mutation despawned
    repeated,   \* history: the last mutation had the arguments of the one right before it
    lastWrite   \* history: per in-range cell, the texture_index of the last set (or fill_rect
                \* covering the cell) that no later remove hit, or NoWrite

mapVars == <<tilemap, world, panicked, lastOp, despawned, repeated, lastWrite>>

VARIABLES
    built,      \* per tilemap entity: [built, texture, waiting]; waiting is the
                \* WaitForTextureUsageChange marker on the entity
    images,     \* Assets<Image>: per handle [loaded, copy_src]
    usagePanic  \* TRUE once set_usage panicked

texVars == <<built, images, usagePanic>>

VARIABLES
    ran,        \* the render-app systems that have run in the current frame
    inView,     \* the chunks the camera sees in the current frame
    extracted,  \* the chunks with extracted tile changes not yet prepared
    dirty,      \* the chunks whose buffer is out of date
    visible,    \* the chunks the last culling marked visible
    rebuilt,    \* history: the chunks rebuilt in the current frame
    startDirty  \* history: the chunks that were dirty when the current frame began

renderVars == <<ran, inView, extracted, dirty, visible, rebuilt, startDirty>>

VARIABLES
    args,       \* the arguments of a call of a function without side effects
    ret         \* what the call returned, once it was made

callVars == <<args, ret>>

VARIABLES
    layerTileset, \* layer.tileset_def_uid of the LDtk layer instance being loaded, or None
    pattern,    \* the TilemapPattern of one LDtk layer: cell -> tile builder
    layerPanic, \* TRUE once set_tile panicked
    lastTile    \* history: the last set_tile, and what the cell held before it

layerVars == <<layerTileset, pattern, layerPanic, lastTile>>

VARIABLES
    manager,    \* the LdtkLevelManager: [initialized, loaded_levels]
    mgrWorld,   \* the entities its Commands touched: [loader, unloader, next]; loader maps
                \* each entity spawned with LdtkLoader to its level, unloader is the set
                \* of entities LdtkUnloader was inserted on
    mgrPanic,   \* TRUE once a method of the manager panicked
    mgrHist     \* history: the last call [kind, arg, ret], the manager and the world
                \* before it (before, wbefore), and whether a level had been loaded at
                \* any time before it (everBefore) or by now (ever)

managerVars == <<manager, mgrWorld, mgrPanic, mgrHist>>

VARIABLES
    tiledMgr,   \* the TiledTilemapManger: [version, cache, loaded_levels]; cache is the
                \* set of the map names it holds a parsed map for
    tiledWorld, \* the entities its Commands touched: [loader, unloader, next]; loader maps
                \* each entity spawned with TiledLoader to its map, unloader is the set of
                \* entities TiledUnloader was inserted on
    tiledPanic, \* TRUE once a method of the manager panicked
    tiledHist   \* history: the last call [kind, arg], and the manager and the world
                \* before it (before, wbefore)

tiledVars == <<tiledMgr, tiledWorld, tiledPanic, tiledHist>>

vars == <<mapVars, texVars, renderVars, callVars, layerVars,
          managerVars, tiledVars>>

\* what the actions of one part of the model leave alone
notMapVars == <<texVars, renderVars, callVars, layerVars,
                managerVars, tiledVars>>
notTexVars == <<mapVars, renderVars, callVars, layerVars,
                managerVars, tiledVars>>
notRenderVars == <<mapVars, texVars, callVars, layerVars,
                   managerVars, tiledVars>>
notCallVars == <<mapVars, texVars, renderVars, layerVars,
                 managerVars, tiledVars>>
notLayerVars == <<mapVars, texVars, renderVars, callVars,
                  managerVars, tiledVars>>
notManagerVars == <<mapVars, texVars, renderVars, callVars,
                    layerVars, tiledVars>>
notTiledVars == <<mapVars, texVars, renderVars, callVars,
                  layerVars, managerVars>>

\* ------------------------------------------------------------------ values
\* Option<Entity>::None; entities are the positive integers
None == 0
NoWrite == 0 - 1

\* inputs reach one past the largest width and height, so every map has out-of-range indices
UVec2 == [x : 0..MaxWidth, y : 0..MaxHeight]
Sizes == [x : 1..MaxWidth, y : 1..MaxHeight]
\* texture indices are opaque to the grid: two of them tell a tile from the one it replaces
TextureIndex == {0, 1}
\* TileBuilder { index, texture_index, .. }
TileBuilder == [index : UVec2, texture_index : TextureIndex]
\* FillArea { origin, dest, .. }: origin <= dest on both axes
FillArea == {a \in [origin : UVec2, dest : UVec2] :
                a.origin.x <= a.dest.x /\ a.origin.y <= a.dest.y}

\* the pair (Tilemap, World) an operation works on, with the panic flag
St(tm, w, p) == [tm |-> tm, w |-> w, panicked |-> p]

\* ------------------------------------------------------------------ Tilemap
\* TilemapBuilder::build: size.x * size.y empty slots
build(size) ==
    [size |-> size, tiles |-> [i \in 1..(size.x * size.y) |-> None]]

\* variant: the bound itself passes as in range
is_out_of_tilemap_uvec_inclusive(tm, index) ==
    index.x > tm.size.x \/ index.y > tm.size.y

is_out_of_tilemap_uvec(tm, index) ==
    index.x >= tm.size.x \/ index.y >= tm.size.y

\* (index.y * self.size.x + index.x) as usize
SlotOf(tm, index) == index.y * tm.size.x + index.x

\* self.tiles[i]: [panic, value]; indexing past the end of the Vec panics
get_unchecked(tm, index) ==
    LET i == SlotOf(tm, index)
    IN  IF i >= Len(tm.tiles)
        THEN [panic |-> TRUE, value |-> None]
        ELSE [panic |-> FALSE, value |-> tm.tiles[i + 1]]

get(tm, index) ==
    IF is_out_of_tilemap_uvec(tm, index)
    THEN [panic |-> FALSE, value |-> None]
    ELSE get_unchecked(tm, index)

\* commands.entity(e).despawn()
Despawn(w, e) ==
    [w EXCEPT !.tiles = [d \in (DOMAIN w.tiles) \ {e} |-> w.tiles[d]]]

\* TileBuilder::build(commands, tilemap): spawns one entity carrying the tile
TileBuild(w, b) ==
    [w EXCEPT !.tiles = [d \in (DOMAIN w.tiles) \cup {w.next} |->
                            IF d = w.next
                            THEN [index |-> b.index, texture_index |-> b.texture_index]
                            ELSE w.tiles[d]],
              !.next = w.next + 1]

\* variant: the previous tile entity is not despawned
set_unchecked_no_despawn(s, b) ==
    LET i == SlotOf(s.tm, b.index)
    IN  IF s.panicked THEN s
        ELSE IF i >= Len(s.tm.tiles) THEN [s EXCEPT !.panicked = TRUE]
        ELSE [s EXCEPT !.w = TileBuild(s.w, b), !.tm.tiles[i + 1] = s.w.next]

set_unchecked(s, b) ==
    LET i == SlotOf(s.tm, b.index)
    IN  IF s.panicked THEN s
        ELSE IF i >= Len(s.tm.tiles) THEN [s EXCEPT !.panicked = TRUE]
        ELSE LET previous == s.tm.tiles[i + 1]
                 w1 == IF previous # None THEN Despawn(s.w, previous) ELSE s.w
                 new_tile == w1.next
                 w2 == TileBuild(w1, b)
             IN  [s EXCEPT !.w = w2, !.tm.tiles[i + 1] = new_tile]

set(s, b) ==
    IF is_out_of_tilemap_uvec(s.tm, b.index) THEN s ELSE set_unchecked(s, b)

\* variant: the entity is despawned but the slot keeps it
remove_unchecked_keep_slot(s, index) ==
    LET i == SlotOf(s.tm, index)
    IN  IF s.panicked THEN s
        ELSE IF i >= Len(s.tm.tiles) \/ s.tm.tiles[i + 1] = None
             THEN [s EXCEPT !.panicked = TRUE]
        ELSE [s EXCEPT !.w = Despawn(s.w, s.tm.tiles[i + 1])]

remove_unchecked(s, index) ==
    LET i == SlotOf(s.tm, index)
    IN  IF s.panicked THEN s
        ELSE IF i >= Len(s.tm.tiles) \/ s.tm.tiles[i + 1] = None
             THEN [s EXCEPT !.panicked = TRUE]
        ELSE [s EXCEPT !.w = Despawn(s.w, s.tm.tiles[i + 1]),
                       !.tm.tiles[i + 1] = None]

\* variant: an empty slot is not skipped
remove_no_absent_check(s, index) ==
    IF is_out_of_tilemap_uvec(s.tm, index) THEN s ELSE remove_unchecked(s, index)

remove(s, index) ==
    IF is_out_of_tilemap_uvec(s.tm, index) \/ get(s.tm, index).value = None
    THEN s
    ELSE remove_unchecked(s, index)

\* for y in area.origin.y..=area.dest.y { for x in area.origin.x..=area.dest.x { .. } },
\* from cell (x, y) on; a panic unwinds out of the loops
RECURSIVE FillFrom(_, _, _, _, _)
FillFrom(s, area, x, y, b) ==
    IF s.panicked \/ y > area.dest.y THEN s
    ELSE IF x > area.dest.x THEN FillFrom(s, area, area.origin.x, y + 1, b)
    ELSE FillFrom(set_unchecked(s, [b EXCEPT !.index = [x |-> x, y |-> y]]),
                  area, x + 1, y, b)

fill_rect(s, area, b) == FillFrom(s, area, area.origin.x, area.origin.y, b)

\* ------------------------------------------------------------------ texture values
\* Tilemap::texture: Option<TileTexture>::None; image handles are the positive integers
NoTexture == 0

TilemapIds == 1..MaxTilemap
Handles == 1..MaxImage

\* an entity no TilemapBuilder::build has spawned yet
Unbuilt == [built |-> FALSE, texture |-> NoTexture, waiting |-> FALSE]

\* no asset has finished loading
NoImages == [h \in Handles |-> [loaded |-> FALSE, copy_src |-> FALSE]]

\* the texture state while the other parts of the model run
TexIdle ==
    /\ built = [id \in TilemapIds |-> Unbuilt]
    /\ images = NoImages
    /\ usagePanic = FALSE

\* ------------------------------------------------------------------ render values
Chunks == 1..MaxChunk

\* add_systems(ExtractSchedule, (..))
ExtractSystems ==
    {"extract_tilemaps", "extract_changed_tilemaps", "extract_tiles", "extract_view",
     "extract_materials", "extract_unloaded_chunks", "extract_resources",
     "extract_despawned_tilemaps", "extract_despawned_tiles"}

\* add_systems(Render, (..).in_set(RenderSet::Prepare))
PrepareSystems ==
    {"prepare_tilemaps", "prepare_tiles", "prepare_unloaded_chunks",
     "prepare_despawned_tilemaps", "prepare_despawned_tiles", "cull_chunks"}

\* add_systems(Render, queue::queue::<M>.in_set(RenderSet::Queue))
QueueSystems == {"queue"}

\* the render app before its first frame, and while the other parts of the model run
RenderIdle ==
    /\ ran = {}
    /\ inView = {}
    /\ extracted = {}
    /\ dirty = {}
    /\ visible = {}
    /\ rebuilt = {}
    /\ startDirty = {}

\* ------------------------------------------------------------------ layer values
Cells == 0..MaxCell

\* ------------------------------------------------------------------ idle parts
CallIdle ==
    /\ args = [fn |-> "none"]
    /\ ret = [fn |-> "none"]

LayersIdle ==
    /\ layerTileset = None
    /\ pattern = <<>>
    /\ layerPanic = FALSE
    /\ lastTile = [kind |-> "none"]

\* LdtkLevelManager::default(): no parsed json, no loaded level
DefaultManager == [initialized |-> FALSE, loaded_levels |-> <<>>]
NoLevelEntities == [loader |-> <<>>, unloader |-> {}, next |-> 1]
NoCall == [kind |-> "none", arg |-> "none", ret |-> "unit", before |-> DefaultManager,
           wbefore |-> NoLevelEntities, everBefore |-> FALSE, ever |-> FALSE]

ManagerIdle ==
    /\ manager = DefaultManager
    /\ mgrWorld = NoLevelEntities
    /\ mgrPanic = FALSE
    /\ mgrHist = NoCall

\* TiledTilemapManger::default(): version 0, nothing cached, nothing loaded
DefaultTiledManager == [version |-> 0, cache |-> {}, loaded_levels |-> <<>>]
NoMapEntities == [loader |-> <<>>, unloader |-> {}, next |-> 1]
NoTiledCall == [kind |-> "none", arg |-> "none", before |-> DefaultTiledManager,
                wbefore |-> NoMapEntities]

TiledIdle ==
    /\ tiledMgr = DefaultTiledManager
    /\ tiledWorld = NoMapEntities
    /\ tiledPanic = FALSE
    /\ tiledHist = NoTiledCall

\* ------------------------------------------------------------------ actions
Cur == St(tilemap, world, panicked)

\* the number of cells of area
AreaCount(area) ==
    (area.dest.x - area.origin.x + 1) * (area.dest.y - area.origin.y + 1)

InArea(c, area) ==
    /\ area.origin.x <= c.x /\ c.x <= area.dest.x
    /\ area.origin.y <= c.y /\ c.y <= area.dest.y

InRange(tm) == {c \in UVec2 : ~is_out_of_tilemap_uvec(tm, c)}

\* the run allocates at most MaxEntity tile entities: an operation asking for n more
\* is taken while they fit
Fits(n) == world.next + n <= MaxEntity + 1

\* the outcome s of an operation becomes the state
Commit(s, op) ==
    /\ UNCHANGED notMapVars
    /\ tilemap' = s.tm
    /\ world' = s.w
    /\ panicked' = s.panicked
    /\ lastOp' = IF s # Cur /\ op.kind # "fill_rect" THEN op ELSE [kind |-> op.kind]
    /\ despawned' = Cardinality((DOMAIN world.tiles) \ (DOMAIN s.w.tiles))
    /\ repeated' = (op = lastOp)

\* the grid while the other parts of the model run: a 1 x 1 tilemap nobody edits
MapIdle ==
    /\ tilemap = build([x |-> 1, y |-> 1])
    /\ world = [tiles |-> <<>>, next |-> 1]
    /\ panicked = FALSE
    /\ lastOp = [kind |-> "build"]
    /\ despawned = 0
    /\ repeated = FALSE
    /\ lastWrite = [c \in InRange(tilemap) |-> NoWrite]

\* every part of the model but part g is idle
OthersIdle(g) ==
    /\ IF g = "map" THEN TRUE ELSE MapIdle
    /\ IF g = "texture" THEN TRUE ELSE TexIdle
    /\ IF g = "render" THEN TRUE ELSE RenderIdle
    /\ IF g = "call" THEN TRUE ELSE CallIdle
    /\ IF g = "layers" THEN TRUE ELSE LayersIdle
    /\ IF g = "manager" THEN TRUE ELSE ManagerIdle
    /\ IF g = "tiled" THEN TRUE ELSE TiledIdle

MapInit ==
    /\ OthersIdle("map")
    /\ \E size \in Sizes : tilemap = build(size)
    /\ world = [tiles |-> <<>>, next |-> 1]
    /\ panicked = FALSE
    /\ lastOp = [kind |-> "build"]
    /\ despawned = 0
    /\ repeated = FALSE
    /\ lastWrite = [c \in InRange(tilemap) |-> NoWrite]

Set(b) ==
    /\ ~panicked
    /\ Fits(1)
    /\ LET s == set(Cur, b) IN Commit(s, [kind |-> "set", b |-> b])
    /\ lastWrite' = [c \in DOMAIN lastWrite |->
                        IF c = b.index THEN b.texture_index ELSE lastWrite[c]]

Remove(index) ==
    /\ ~panicked
    /\ LET s == remove(Cur, index) IN Commit(s, [kind |-> "remove", index |-> index])
    /\ lastWrite' = [c \in DOMAIN lastWrite |->
                        IF c = index THEN NoWrite ELSE lastWrite[c]]

FillRect(area, b) ==
    /\ ~panicked
    /\ Fits(AreaCount(area))
    /\ LET s == fill_rect(Cur, area, b)
       IN  Commit(s, [kind |-> "fill_rect"])
    /\ lastWrite' = [c \in DOMAIN lastWrite |->
                        IF InArea(c, area) THEN b.texture_index ELSE lastWrite[c]]

\* the index field of the builder handed to fill_rect is overwritten per cell
AnyIndex == [x |-> 0, y |-> 0]

FillBuilder(t) == [index |-> AnyIndex, texture_index |-> t]

MapNext ==
    \/ \E b \in TileBuilder : Set(b)
    \/ \E index \in UVec2 : Remove(index)
    \/ \E area \in FillArea, t \in TextureIndex :
            FillRect(area, FillBuilder(t))

Init == MapInit

Next == MapNext

Spec == Init /\ [][Next]_vars

\* ------------------------------------------------------------------ texture usage
\* TilemapBuilder::build: entity.insert((WaitForTextureUsageChange, tilemap.clone()))
BuildEntity(texture) == [built |-> TRUE, texture |-> texture, waiting |-> TRUE]

\* variant: the marker is removed although the image is not there yet
set_usage_no_wait(u, id) ==
    LET texture == u.built[id].texture
    IN  IF texture = NoTexture \/ ~u.images[texture].loaded
        THEN [u EXCEPT !.built[id].waiting = FALSE]
        ELSE [u EXCEPT !.images[texture].copy_src = TRUE,
                       !.built[id].waiting = FALSE]

\* Tilemap::set_usage on the tilemap of entity id; u = [built, images, panic]
set_usage(u, id) ==
    LET texture == u.built[id].texture
    IN  IF texture = NoTexture
        THEN [u EXCEPT !.built[id].waiting = FALSE]
        ELSE IF ~u.images[texture].loaded
        THEN u
        ELSE IF ~u.images[texture].copy_src
        THEN \* image_assets.get_mut(..).unwrap(): the same handle get() just found
             IF ~u.images[texture].loaded
             THEN [u EXCEPT !.panic = TRUE]
             ELSE [u EXCEPT !.images[texture].copy_src = TRUE,
                            !.built[id].waiting = FALSE]
        ELSE [u EXCEPT !.built[id].waiting = FALSE]

\* texture::set_texture_usage, run every frame in Update: set_usage on every tilemap
\* that carries the marker
RECURSIVE SetUsageFrom(_, _)
SetUsageFrom(u, id) ==
    IF id > MaxTilemap \/ u.panic THEN u
    ELSE SetUsageFrom(IF u.built[id].built /\ u.built[id].waiting
                      THEN set_usage(u, id) ELSE u,
                      id + 1)

set_texture_usage(u) == SetUsageFrom(u, 1)

TexCur == [built |-> built, images |-> images, panic |-> usagePanic]

TexInit ==
    /\ TexIdle
    /\ OthersIdle("texture")

\* TilemapBuilder::build, with or without with_texture
BuildTilemap(id, texture) ==
    /\ ~usagePanic
    /\ ~built[id].built
    /\ built' = [built EXCEPT ![id] = BuildEntity(texture)]
    /\ UNCHANGED <<images, usagePanic, notTexVars>>

\* the asset server finishes loading image h, with or without COPY_SRC in its usage
ImageLoaded(h, copy_src) ==
    /\ ~usagePanic
    /\ ~images[h].loaded
    /\ images' = [images EXCEPT ![h] = [loaded |-> TRUE, copy_src |-> copy_src]]
    /\ UNCHANGED <<built, usagePanic, notTexVars>>

\* one frame's run of texture::set_texture_usage
SetTextureUsage ==
    /\ ~usagePanic
    /\ LET u == set_texture_usage(TexCur)
       IN  /\ built' = u.built
           /\ images' = u.images
           /\ usagePanic' = u.panic
    /\ UNCHANGED notTexVars

TexNext ==
    \/ \E id \in TilemapIds, texture \in {NoTexture} \cup Handles : BuildTilemap(id, texture)
    \/ \E h \in Handles, copy_src \in BOOLEAN : ImageLoaded(h, copy_src)
    \/ SetTextureUsage

\* set_texture_usage is a system of the Update schedule: it runs in every frame
SpecTexture == TexInit /\ [][TexNext]_vars /\ WF_vars(SetTextureUsage)

\* ------------------------------------------------------------------ render frame
\* the render-side chunk state the systems work on
Mirror == [extracted |-> extracted, dirty |-> dirty, visible |-> visible,
           rebuilt |-> rebuilt]

\* extract::extract_tiles: the chunks of the tiles changed since the last frame
extract_tiles(r, changed) == [r EXCEPT !.extracted = r.extracted \cup changed]

\* prepare::prepare_tiles: the extracted tiles go into their chunks, which become dirty
prepare_tiles(r) == [r EXCEPT !.dirty = r.dirty \cup r.extracted, !.extracted = {}]

\* culling::cull_chunks: a chunk is visible when its aabb meets the camera's view
cull_chunks(r, view) == [r EXCEPT !.visible = view]

\* prepare::prepare_tilemaps: the chunks that are visible and dirty are rebuilt
prepare_tilemaps(r) ==
    [r EXCEPT !.dirty = r.dirty \ r.visible,
              !.rebuilt = r.rebuilt \cup (r.dirty \cap r.visible)]

\* what system s does to the chunks; the other systems leave them alone
Effect(s, r, changed) ==
    CASE s = "extract_tiles" -> extract_tiles(r, changed)
      [] s = "prepare_tiles" -> prepare_tiles(r)
      [] s = "cull_chunks" -> cull_chunks(r, inView)
      [] s = "prepare_tilemaps" -> prepare_tilemaps(r)
      [] OTHER -> r

Run(s, changed) ==
    /\ ran' = ran \cup {s}
    /\ LET r == Effect(s, Mirror, changed)
       IN  /\ extracted' = r.extracted
           /\ dirty' = r.dirty
           /\ visible' = r.visible
           /\ rebuilt' = r.rebuilt
    /\ UNCHANGED <<inView, startDirty, notRenderVars>>

\* a system of the ExtractSchedule; the schedule orders none of them
RunExtract(s, changed) ==
    /\ s \in ExtractSystems \ ran
    /\ changed # {} => s = "extract_tiles"
    /\ Run(s, changed)

\* the system of RenderSet::Queue, once the ExtractSchedule is through: the Render
\* schedule of the bevy version the plugin is written for runs the Queue set before
\* the Prepare set
RunQueue(s) ==
    /\ ExtractSystems \subseteq ran
    /\ s \in QueueSystems \ ran
    /\ Run(s, {})

\* a system of RenderSet::Prepare, once RenderSet::Queue is through; the set orders
\* none of them, cull_chunks included
RunPrepare(s) ==
    /\ ExtractSystems \subseteq ran
    /\ QueueSystems \subseteq ran
    /\ s \in PrepareSystems \ ran
    /\ Run(s, {})

\* the frame ends and the next one begins, with the camera where it then is
EndFrame(view) ==
    /\ QueueSystems \subseteq ran
    /\ PrepareSystems \subseteq ran
    /\ ran' = {}
    /\ inView' = view
    /\ rebuilt' = {}
    /\ startDirty' = dirty
    /\ UNCHANGED <<extracted, dirty, visible, notRenderVars>>

RenderInit ==
    /\ RenderIdle
    /\ OthersIdle("render")

RenderNext ==
    \/ \E s \in ExtractSystems, changed \in SUBSET Chunks : RunExtract(s, changed)
    \/ \E s \in QueueSystems : RunQueue(s)
    \/ \E s \in PrepareSystems : RunPrepare(s)
    \/ \E view \in SUBSET Chunks : EndFrame(view)

SpecRender == RenderInit /\ [][RenderNext]_vars

\* ------------------------------------------------------------------ index_to_world
\* Vec2 values are kept doubled (x2 = 2 * x, y2 = 2 * y): every product of the function
\* is a multiple of one half, and f32 is exact on the values used here
Vec2(x, y) == [x2 |-> 2 * x, y2 |-> 2 * y]

TileTypes == {"Square", "IsometricDiamond"}
Indices == [x : 0..MaxIndex, y : 0..MaxIndex]
RenderSizes == {Vec2(32, 16), Vec2(16, 16)}
Translations == {Vec2(0, 0), Vec2(3, 0 - 5)}

\* variant: the isometric y lacks the + 1.
index_to_world_no_offset(tm, index) ==
    IF tm.tile_type = "Square"
    THEN [x2 |-> ((2 * index.x + 1) * tm.tile_render_size.x2) \div 2 + tm.translation.x2,
          y2 |-> ((2 * index.y + 1) * tm.tile_render_size.y2) \div 2 + tm.translation.y2]
    ELSE [x2 |-> ((index.x - index.y) * tm.tile_render_size.x2) \div 2 + tm.translation.x2,
          y2 |-> ((index.x + index.y) * tm.tile_render_size.y2) \div 2 + tm.translation.y2]

\* Tilemap::index_to_world; index.as_vec2() makes the subtraction a signed one.
\* (a + 0.5) * r doubled is (2a + 1) * r2 / 2, and a / 2. * r doubled is a * r2 / 2
index_to_world(tm, index) ==
    IF tm.tile_type = "Square"
    THEN [x2 |-> ((2 * index.x + 1) * tm.tile_render_size.x2) \div 2 + tm.translation.x2,
          y2 |-> ((2 * index.y + 1) * tm.tile_render_size.y2) \div 2 + tm.translation.y2]
    ELSE [x2 |-> ((index.x - index.y) * tm.tile_render_size.x2) \div 2 + tm.translation.x2,
          y2 |-> ((index.x + index.y + 1) * tm.tile_render_size.y2) \div 2
                    + tm.translation.y2]

IndexToWorldArgs ==
    [fn : {"index_to_world"}, tile_type : TileTypes, tile_render_size : RenderSizes,
     translation : Translations, index : Indices]

\* a call of index_to_world
IndexToWorld ==
    /\ args.fn = "index_to_world"
    /\ ret.fn = "none"
    /\ ret' = [fn |-> "index_to_world", value |-> index_to_world(args, args.index)]
    /\ UNCHANGED <<args, notCallVars>>

\* ------------------------------------------------------------------ instantiate
\* the entity identifiers and tags of an LDtk file, and the registered ones
Identifiers == {"Player", "Unknown"}
EntityRegistry == {"Player"}
Tags == {"actor", "unknown"}
EntityTagRegistry == {"actor"}
TagLists == UNION {[1..n -> Tags] : n \in 0..MaxTags}

\* self.instance.tags.iter().for_each(..) from tag i on: [panic, added]
RECURSIVE AddTags(_, _, _, _)
AddTags(tags, i, config, added) ==
    IF i > Len(tags) THEN [panic |-> FALSE, added |-> added]
    ELSE IF tags[i] \in EntityTagRegistry
         THEN AddTags(tags, i + 1, config, Append(added, tags[i]))
    ELSE IF ~config.ignore_unregistered_entity_tags
         THEN [panic |-> TRUE, added |-> added]
    ELSE AddTags(tags, i + 1, config, added)

\* variant: an unregistered tag is always skipped
instantiate_tags_skipped(e, config) ==
    IF e.identifier \notin EntityRegistry
    THEN [panic |-> ~config.ignore_unregistered_entities, added |-> <<>>,
          spawned |-> FALSE]
    ELSE [panic |-> FALSE,
          added |-> SelectSeq(e.tags, LAMBDA tag : tag \in EntityTagRegistry),
          spawned |-> TRUE]

\* PackedLdtkEntity::instantiate: [panic, added, spawned], the tag components added to
\* the entity and whether the registered type's spawn ran
instantiate(e, config) ==
    IF e.identifier \notin EntityRegistry
    THEN IF ~config.ignore_unregistered_entities
         THEN [panic |-> TRUE, added |-> <<>>, spawned |-> FALSE]
         ELSE [panic |-> FALSE, added |-> <<>>, spawned |-> FALSE]
    ELSE LET r == AddTags(e.tags, 1, config, <<>>)
         IN  [panic |-> r.panic, added |-> r.added, spawned |-> ~r.panic]

LdtkLoadConfig ==
    [ignore_unregistered_entities : BOOLEAN, ignore_unregistered_entity_tags : BOOLEAN]

InstantiateArgs ==
    [fn : {"instantiate"}, identifier : Identifiers, tags : TagLists,
     config : LdtkLoadConfig]

\* a call of instantiate
Instantiate ==
    /\ args.fn = "instantiate"
    /\ ret.fn = "none"
    /\ ret' = [fn |-> "instantiate", value |-> instantiate(args, args.config)]
    /\ UNCHANGED <<args, notCallVars>>

\* ------------------------------------------------------------------ TilemapBuilder
\* render_chunk_size: 32 in TilemapBuilder::new
DefaultRenderChunkSize == 32
\* chunk_count.x * chunk_count.y > 100 in TilemapBuilder::build
MaxChunkCount == 100

\* TilemapBuilder::new(ty, size, tile_render_size)
new(size) ==
    [size |-> size, render_chunk_size |-> DefaultRenderChunkSize, safety_check |-> TRUE]

with_render_chunk_size(b, size) == [b EXCEPT !.render_chunk_size = size]

with_disabled_safety_check(b) == [b EXCEPT !.safety_check = FALSE]

\* RenderChunkStorage::calculate_render_chunk_count: the chunks of render_chunk_size
\* cells that cover the map, per axis
calculate_render_chunk_count(size, render_chunk_size) ==
    [x |-> (size.x + render_chunk_size - 1) \div render_chunk_size,
     y |-> (size.y + render_chunk_size - 1) \div render_chunk_size]

\* variant: a map of exactly the maximal chunk count is refused too
builder_build_at_limit(b) ==
    LET chunk_count == calculate_render_chunk_count(b.size, b.render_chunk_size)
    IN  IF b.safety_check /\ chunk_count.x * chunk_count.y >= MaxChunkCount
        THEN [panic |-> TRUE]
        ELSE [panic |-> FALSE, tilemap |-> build(b.size)]

\* TilemapBuilder::build: [panic, tilemap]
builder_build(b) ==
    LET chunk_count == calculate_render_chunk_count(b.size, b.render_chunk_size)
    IN  IF b.safety_check /\ chunk_count.x * chunk_count.y > MaxChunkCount
        THEN [panic |-> TRUE]
        ELSE [panic |-> FALSE, tilemap |-> build(b.size)]

\* the sizes of the tilemaps built: every small one, and the two one-row maps at the
\* edge of the chunk limit under the default render chunk size
BuildSizes ==
    [x : 1..MaxSide, y : 1..MaxSide]
        \cup {[x |-> MaxChunkCount * DefaultRenderChunkSize + d, y |-> 1] : d \in {0, 1}}

\* the builders handed to build: new, with or without with_render_chunk_size and
\* with_disabled_safety_check
Builders ==
    LET fresh == {new(size) : size \in BuildSizes}
        sized == fresh \cup {with_render_chunk_size(b, n) : b \in fresh, n \in {1, 2}}
    IN  sized \cup {with_disabled_safety_check(b) : b \in sized}

BuildArgs == [fn : {"build"}, builder : Builders]

\* a call of TilemapBuilder::build
Build ==
    /\ args.fn = "build"
    /\ ret.fn = "none"
    /\ ret' = [fn |-> "build", value |-> builder_build(args.builder)]
    /\ UNCHANGED <<args, notCallVars>>

\* ------------------------------------------------------------------ TiledAssets
\* the <tileset firstgid=".."> elements of one Tiled map, in file order
FirstGids == 1..MaxGid
TilesetDefs == UNION {[1..n -> FirstGids] : n \in 1..MaxTilesets}
\* the global tile ids a layer of the map may hold
Gids == 0..(MaxGid + 1)

\* TiledAssets::default()
NoAssets == [tilesets |-> <<>>, tilemap_tilesets |-> <<>>]

\* v.sort_by(|(_, a), (_, b)| a.cmp(b)): entry e goes behind the entries of the sorted v
\* that do not compare greater (the sort is stable)
RECURSIVE InsertByFirstGid(_, _)
InsertByFirstGid(v, e) ==
    IF v = <<>> THEN <<e>>
    ELSE IF Head(v).first_gid <= e.first_gid
         THEN <<Head(v)>> \o InsertByFirstGid(Tail(v), e)
         ELSE <<e>> \o v

RECURSIVE sort_by_first_gid(_)
sort_by_first_gid(v) ==
    IF v = <<>> THEN <<>>
    ELSE InsertByFirstGid(sort_by_first_gid(SubSeq(v, 1, Len(v) - 1)), v[Len(v)])

\* load_tilesets on the tileset definitions of one map, from definition i on:
\* (self.tilesets.len(), first_gid) is pushed for the map and the tileset is pushed
RECURSIVE PushTilesets(_, _, _)
PushTilesets(a, tileset_defs, i) ==
    IF i > Len(tileset_defs) THEN a
    ELSE PushTilesets(
            [tilesets |-> Append(a.tilesets, [name |-> i]),
             tilemap_tilesets |-> Append(a.tilemap_tilesets,
                                         [index |-> Len(a.tilesets),
                                          first_gid |-> tileset_defs[i]])],
            tileset_defs, i + 1)

\* TiledAssets::load_tilesets: the entries of the map end sorted by first_gid
load_tilesets(a, tileset_defs) ==
    LET pushed == PushTilesets(a, tileset_defs, 1)
    IN  [pushed EXCEPT !.tilemap_tilesets = sort_by_first_gid(@)]

\* .iter().find(|(_, first_gid)| *first_gid <= gid): the position of the first such
\* entry from position i on, or 0
RECURSIVE Find(_, _, _)
Find(v, gid, i) ==
    IF i > Len(v) THEN 0
    ELSE IF v[i].first_gid <= gid THEN i
    ELSE Find(v, gid, i + 1)

\* TiledAssets::get_tileset: [panic, tileset, first_gid]; unwrap panics when find
\* found nothing
get_tileset(a, gid) ==
    LET i == Find(a.tilemap_tilesets, gid, 1)
    IN  IF i = 0 THEN [panic |-> TRUE]
        ELSE [panic |-> FALSE,
              tileset |-> a.tilesets[a.tilemap_tilesets[i].index + 1],
              first_gid |-> a.tilemap_tilesets[i].first_gid]

GetTilesetArgs == [fn : {"get_tileset"}, tileset_defs : TilesetDefs, gid : Gids]

\* a call of get_tileset on the assets load_tilesets made of the map
GetTileset ==
    /\ args.fn = "get_tileset"
    /\ ret.fn = "none"
    /\ ret' = [fn |-> "get_tileset",
               value |-> get_tileset(load_tilesets(NoAssets, args.tileset_defs), args.gid)]
    /\ UNCHANGED <<args, notCallVars>>

\* ------------------------------------------------------------------ calls
CallInit ==
    /\ OthersIdle("call")
    /\ args \in IndexToWorldArgs \cup InstantiateArgs \cup BuildArgs \cup GetTilesetArgs
    /\ ret = [fn |-> "none"]

CallNext ==
    \/ IndexToWorld
    \/ Instantiate
    \/ Build
    \/ GetTileset

SpecCall == CallInit /\ [][CallNext]_vars

\* ------------------------------------------------------------------ LdtkLayers
\* the tile ids of the tileset, and the ones config.animation_mapper maps to an animation
TileIdsOfSet == {1, 2}
AnimationMapper == {2}
\* the uids LdtkAssets.tilesets holds a texture for (load_texture skips a tileset
\* without rel_path), and the tileset_def_uid a layer instance may carry
Tilesets == {1}
TilesetDefUids == {None, 1, 2}

\* LdtkLayers::try_create_new_layer: [pattern, panic]; both unwraps come before the
\* layer is looked at, so a layer without tileset_def_uid, or with one tilesets has no
\* texture for, panics whether or not its pattern exists
try_create_new_layer(p, tileset_def_uid) ==
    IF tileset_def_uid = None \/ tileset_def_uid \notin Tilesets
    THEN [pattern |-> p, panic |-> TRUE]
    ELSE [pattern |-> p, panic |-> FALSE]

\* LdtkLayers::set_tile on the pattern of one layer: [pattern, panic]. A cell holds
\* [kind |-> "static", layers] or [kind |-> "animated", animation]
set_tile(p0, tileset_def_uid, cell, tile_id) ==
    LET created == try_create_new_layer(p0, tileset_def_uid)
        p == created.pattern
    IN  IF created.panic THEN created
        ELSE IF cell \in DOMAIN p
        THEN IF p[cell].kind # "static"
             THEN [pattern |-> p, panic |-> TRUE]
             ELSE [pattern |-> [p EXCEPT ![cell].layers = Append(@, tile_id)],
                   panic |-> FALSE]
        ELSE LET builder == IF tile_id \in AnimationMapper
                            THEN [kind |-> "animated", animation |-> tile_id]
                            ELSE [kind |-> "static", layers |-> <<tile_id>>]
             IN  [pattern |-> [c \in (DOMAIN p) \cup {cell} |->
                                  IF c = cell THEN builder ELSE p[c]],
                  panic |-> FALSE]

\* load_layer hands one tile instance of the layer to set_tile
SetTile(cell, tile_id) ==
    /\ ~layerPanic
    /\ cell \in DOMAIN pattern /\ pattern[cell].kind = "static"
            => Len(pattern[cell].layers) < MaxStack
    /\ LET r == set_tile(pattern, layerTileset, cell, tile_id)
       IN  /\ pattern' = r.pattern
           /\ layerPanic' = r.panic
    /\ UNCHANGED layerTileset
    /\ lastTile' = [kind |-> "set_tile", cell |-> cell, tile_id |-> tile_id,
                    before |-> IF cell \in DOMAIN pattern THEN pattern[cell].kind
                               ELSE "absent"]
    /\ UNCHANGED notLayerVars

\* load_layer starts on a layer instance: no tile placed yet
LayersInit ==
    /\ layerTileset \in TilesetDefUids
    /\ pattern = <<>>
    /\ layerPanic = FALSE
    /\ lastTile = [kind |-> "none"]
    /\ OthersIdle("layers")

LayersNext == \E cell \in Cells, tile_id \in TileIdsOfSet : SetTile(cell, tile_id)

SpecLayers == LayersInit /\ [][LayersNext]_vars

\* ------------------------------------------------------------------ LdtkLevelManager
Levels == {"a", "b"}
LevelLists == UNION {[1..n -> Levels] : n \in 0..MaxLevels}

\* a method works on k = [mgr, w, panic, ret]: the manager, the world its Commands act
\* on, whether it panicked, and what it returned
Mk(mgr, w) == [mgr |-> mgr, w |-> w, panic |-> FALSE, ret |-> "unit"]

\* f with key d mapped to v
Put(f, d, v) == [x \in (DOMAIN f) \cup {d} |-> IF x = d THEN v ELSE f[x]]
\* f without key d
Drop(f, d) == [x \in (DOMAIN f) \ {d} |-> f[x]]

is_initialized(mgr) == mgr.initialized

\* variant: the check is missing
check_initialized_missing(k) == k

\* check_initialized: panic!("LdtkLevelManager is not initialized!")
check_initialized(k) ==
    IF ~is_initialized(k.mgr) THEN [k EXCEPT !.panic = TRUE] ELSE k

\* reload_json: the file is read and parsed, or the call panics
reload_json(k, readable) ==
    IF readable THEN [k EXCEPT !.mgr.initialized = TRUE] ELSE [k EXCEPT !.panic = TRUE]

initialize(k, readable) == reload_json(k, readable)

\* LdtkLevelManager::new
manager_new(readable) == initialize(Mk(DefaultManager, NoLevelEntities), readable)

\* commands.spawn(LdtkLoader { level }).id() and the insert into loaded_levels
SpawnLoader(k, level) ==
    [k EXCEPT !.mgr.loaded_levels = Put(@, level, k.w.next),
              !.w.loader = Put(@, k.w.next, level),
              !.w.next = @ + 1]

\* variant: a level is loaded next to the loaded ones
load_beside(k0, level) ==
    LET k == check_initialized(k0)
    IN  IF k.panic THEN k
        ELSE IF level \in DOMAIN k.mgr.loaded_levels THEN k
        ELSE SpawnLoader(k, level)

load(k0, level) ==
    LET k == check_initialized(k0)
    IN  IF k.panic THEN k
        ELSE IF DOMAIN k.mgr.loaded_levels # {} THEN [k EXCEPT !.panic = TRUE]
        ELSE IF level \in DOMAIN k.mgr.loaded_levels THEN k
        ELSE SpawnLoader(k, level)

try_load(k0, level) ==
    LET k == check_initialized(k0)
    IN  IF k.panic THEN k
        ELSE IF DOMAIN k.mgr.loaded_levels = {}
             THEN [load(k, level) EXCEPT !.ret = TRUE]
        ELSE [k EXCEPT !.ret = FALSE]

\* commands.entity(*l).insert(LdtkUnloader)
InsertUnloader(w, l) == [w EXCEPT !.unloader = @ \cup {l}]

\* variant: the level leaves loaded_levels without the marker
unload_unmarked(k, level) ==
    IF level \in DOMAIN k.mgr.loaded_levels
    THEN [k EXCEPT !.mgr.loaded_levels = Drop(@, level)]
    ELSE k

unload(k, level) ==
    IF level \in DOMAIN k.mgr.loaded_levels
    THEN [k EXCEPT !.w = InsertUnloader(@, k.mgr.loaded_levels[level]),
                   !.mgr.loaded_levels = Drop(@, level)]
    ELSE k

unload_all(k) ==
    [k EXCEPT !.w.unloader = @ \cup {k.mgr.loaded_levels[l] : l \in DOMAIN k.mgr.loaded_levels},
              !.mgr.loaded_levels = <<>>]

\* variant: the loaded levels stay when the manager switches
switch_to_beside(k0, level) ==
    LET k == check_initialized(k0)
    IN  IF k.panic THEN k
        ELSE IF level \in DOMAIN k.mgr.loaded_levels THEN k
        ELSE SpawnLoader(k, level)

switch_to(k0, level) ==
    LET k == check_initialized(k0)
    IN  IF k.panic THEN k
        ELSE IF level \in DOMAIN k.mgr.loaded_levels THEN k
        ELSE load(unload_all(k), level)

\* levels.iter().for_each(..) from level i on
RECURSIVE LoadEach(_, _, _)
LoadEach(k, levels, i) ==
    IF i > Len(levels) THEN k
    ELSE LoadEach(IF levels[i] \in DOMAIN k.mgr.loaded_levels THEN k
                  ELSE SpawnLoader(k, levels[i]),
                  levels, i + 1)

load_many(k0, levels) ==
    LET k == check_initialized(k0)
    IN  IF k.panic THEN k ELSE LoadEach(k, levels, 1)

try_load_many(k0, levels) ==
    LET k == check_initialized(k0)
    IN  IF k.panic THEN k
        ELSE IF DOMAIN k.mgr.loaded_levels = {}
             THEN [load_many(k, levels) EXCEPT !.ret = TRUE]
        ELSE [k EXCEPT !.ret = FALSE]

\* self.ldtk_json.as_ref().unwrap() after the check
get_cached_data(k0) ==
    LET k == check_initialized(k0)
    IN  IF k.panic THEN k
        ELSE IF ~k.mgr.initialized THEN [k EXCEPT !.panic = TRUE]
        ELSE [k EXCEPT !.ret = "ldtk_json"]

get_ldtk_assets(k0) ==
    LET k == check_initialized(k0)
    IN  IF k.panic THEN k ELSE [k EXCEPT !.ret = "ldtk_assets"]

MgrCur == Mk(manager, mgrWorld)

\* the run spawns at most MaxSpawn level entities: a call that may spawn n is taken
\* while they fit
Spawnable(n) == mgrWorld.next + n <= MaxSpawn + 1

\* the outcome k of the call kind(arg) becomes the state
MgrCommit(k, kind, arg) ==
    /\ manager' = k.mgr
    /\ mgrWorld' = k.w
    /\ mgrPanic' = k.panic
    /\ mgrHist' = [kind |-> kind, arg |-> arg, ret |-> k.ret, before |-> manager,
                   wbefore |-> mgrWorld, everBefore |-> mgrHist.ever,
                   ever |-> mgrHist.ever \/ DOMAIN k.mgr.loaded_levels # {}]
    /\ UNCHANGED notManagerVars

Initialize(readable) ==
    /\ ~mgrPanic
    /\ MgrCommit(initialize(MgrCur, readable), "initialize", readable)

Load(level) ==
    /\ ~mgrPanic
    /\ Spawnable(1)
    /\ MgrCommit(load(MgrCur, level), "load", level)

TryLoad(level) ==
    /\ ~mgrPanic
    /\ Spawnable(1)
    /\ MgrCommit(try_load(MgrCur, level), "try_load", level)

SwitchTo(level) ==
    /\ ~mgrPanic
    /\ Spawnable(1)
    /\ MgrCommit(switch_to(MgrCur, level), "switch_to", level)

LoadMany(levels) ==
    /\ ~mgrPanic
    /\ Spawnable(Len(levels))
    /\ MgrCommit(load_many(MgrCur, levels), "load_many", levels)

TryLoadMany(levels) ==
    /\ ~mgrPanic
    /\ Spawnable(Len(levels))
    /\ MgrCommit(try_load_many(MgrCur, levels), "try_load_many", levels)

Unload(level) ==
    /\ ~mgrPanic
    /\ MgrCommit(unload(MgrCur, level), "unload", level)

UnloadAll ==
    /\ ~mgrPanic
    /\ MgrCommit(unload_all(MgrCur), "unload_all", "none")

GetCachedData ==
    /\ ~mgrPanic
    /\ MgrCommit(get_cached_data(MgrCur), "get_cached_data", "none")

GetLdtkAssets ==
    /\ ~mgrPanic
    /\ MgrCommit(get_ldtk_assets(MgrCur), "get_ldtk_assets", "none")

\* the resource as init_resource::<LdtkLevelManager>() makes it
ManagerInit ==
    /\ ManagerIdle
    /\ OthersIdle("manager")

ManagerNext ==
    \/ \E readable \in BOOLEAN : Initialize(readable)
    \/ \E level \in Levels : Load(level)
    \/ \E level \in Levels : TryLoad(level)
    \/ \E level \in Levels : SwitchTo(level)
    \/ \E levels \in LevelLists : LoadMany(levels)
    \/ \E levels \in LevelLists : TryLoadMany(levels)
    \/ \E level \in Levels : Unload(level)
    \/ UnloadAll
    \/ GetCachedData
    \/ GetLdtkAssets

SpecManager == ManagerInit /\ [][ManagerNext]_vars

\* the manager of a program that loads one level at a time: load_many and
\* try_load_many are never called
SingleLevelNext ==
    \/ \E readable \in BOOLEAN : Initialize(readable)
    \/ \E level \in Levels : Load(level)
    \/ \E level \in Levels : TryLoad(level)
    \/ \E level \in Levels : SwitchTo(level)
    \/ \E level \in Levels : Unload(level)
    \/ UnloadAll

SpecSingleLevel == ManagerInit /\ [][SingleLevelNext]_vars

\* ------------------------------------------------------------------ TiledTilemapManger
\* the file stems of the paths a TiledLoadConfig may list, and the map names handed
\* to load, switch_to and unload
MapNames == {"a", "b"}

\* is_initialized: !self.cache.is_empty()
tiled_is_initialized(mgr) == mgr.cache # {}

\* check_initialized: assert_ne!(self.version, 0, ..)
tiled_check_initialized(k) ==
    IF k.mgr.version = 0 THEN [k EXCEPT !.panic = TRUE] ELSE k

\* reload_xml with a config whose map_path has the file stems map_path: the version is
\* bumped, then every listed file is read and parsed, or the call panics
reload_xml(k, map_path, readable) ==
    IF map_path # {} /\ ~readable
    THEN [k EXCEPT !.mgr.version = @ + 1, !.panic = TRUE]
    ELSE [k EXCEPT !.mgr.version = @ + 1, !.mgr.cache = map_path]

\* commands.spawn(TiledLoader { map, trans_ovrd }) and the insert into loaded_levels
SpawnTiledLoader(k, map_name) ==
    [k EXCEPT !.mgr.loaded_levels = Put(@, map_name, k.w.next),
              !.w.loader = Put(@, k.w.next, map_name),
              !.w.next = @ + 1]

\* variant: a map is loaded whether or not it is loaded already
tiled_load_again(k0, map_name) ==
    LET k == tiled_check_initialized(k0)
    IN  IF k.panic THEN k ELSE SpawnTiledLoader(k, map_name)

\* TiledTilemapManger::load
tiled_load(k0, map_name) ==
    LET k == tiled_check_initialized(k0)
    IN  IF k.panic THEN k
        ELSE IF map_name \in DOMAIN k.mgr.loaded_levels THEN k
        ELSE SpawnTiledLoader(k, map_name)

\* TiledTilemapManger::unload
tiled_unload(k, level) ==
    IF level \in DOMAIN k.mgr.loaded_levels
    THEN [k EXCEPT !.w.unloader = @ \cup {k.mgr.loaded_levels[level]},
                   !.mgr.loaded_levels = Drop(@, level)]
    ELSE k

\* TiledTilemapManger::unload_all
tiled_unload_all(k) ==
    [k EXCEPT !.w.unloader = @ \cup {k.mgr.loaded_levels[l] : l \in DOMAIN k.mgr.loaded_levels},
              !.mgr.loaded_levels = <<>>]

\* TiledTilemapManger::switch_to
tiled_switch_to(k0, level) ==
    LET k == tiled_check_initialized(k0)
    IN  IF k.panic THEN k
        ELSE IF level \in DOMAIN k.mgr.loaded_levels THEN k
        ELSE tiled_load(tiled_unload_all(k), level)

TiledCur == Mk(tiledMgr, tiledWorld)

\* the outcome k of the call kind(arg) becomes the state
TiledCommit(k, kind, arg) ==
    /\ tiledMgr' = k.mgr
    /\ tiledWorld' = k.w
    /\ tiledPanic' = k.panic
    /\ tiledHist' = [kind |-> kind, arg |-> arg, before |-> tiledMgr,
                     wbefore |-> tiledWorld]
    /\ UNCHANGED notTiledVars

ReloadXml(map_path, readable) ==
    /\ ~tiledPanic
    /\ tiledMgr.version < MaxReload
    /\ TiledCommit(reload_xml(TiledCur, map_path, readable), "reload_xml", map_path)

TiledLoad(map_name) ==
    /\ ~tiledPanic
    /\ tiledWorld.next <= MaxTiledSpawn
    /\ TiledCommit(tiled_load(TiledCur, map_name), "load", map_name)

TiledSwitchTo(level) ==
    /\ ~tiledPanic
    /\ tiledWorld.next <= MaxTiledSpawn
    /\ TiledCommit(tiled_switch_to(TiledCur, level), "switch_to", level)

TiledUnload(level) ==
    /\ ~tiledPanic
    /\ TiledCommit(tiled_unload(TiledCur, level), "unload", level)

TiledUnloadAll ==
    /\ ~tiledPanic
    /\ TiledCommit(tiled_unload_all(TiledCur), "unload_all", "none")

\* the resource as its Default makes it
TiledInit ==
    /\ TiledIdle
    /\ OthersIdle("tiled")

TiledNext ==
    \/ \E map_path \in SUBSET MapNames, readable \in BOOLEAN : ReloadXml(map_path, readable)
    \/ \E map_name \in MapNames : TiledLoad(map_name)
    \/ \E level \in MapNames : TiledSwitchTo(level)
    \/ \E level \in MapNames : TiledUnload(level)
    \/ TiledUnloadAll

SpecTiled == TiledInit /\ [][TiledNext]_vars

\* ------------------------------------------------------------------ observations
\* what a caller can see of cell c: NoWrite when empty, else the tile's texture_index
Content(s, c) ==
    LET e == get(s.tm, c).value
    IN  IF e = None \/ e \notin DOMAIN s.w.tiles THEN NoWrite ELSE s.w.tiles[e].texture_index

\* the content of every slot (slot y * size.x + x is cell (x, y)), and the number of
\* live tile entities
Obs(s) ==
    [cells |-> [i \in 1..Len(s.tm.tiles) |->
                    IF s.tm.tiles[i] = None THEN NoWrite
                    ELSE s.w.tiles[s.tm.tiles[i]].texture_index],
     live |-> Cardinality(DOMAIN s.w.tiles)]

Held == {tilemap.tiles[i] : i \in 1..Len(tilemap.tiles)} \ {None}

\* set(c, b) for every cell c of area, in the order fill_rect visits them
RECURSIVE SetEachFrom(_, _, _, _, _)
SetEachFrom(s, area, x, y, b) ==
    IF y > area.dest.y THEN s
    ELSE IF x > area.dest.x THEN SetEachFrom(s, area, area.origin.x, y + 1, b)
    ELSE SetEachFrom(set(s, [b EXCEPT !.index = [x |-> x, y |-> y]]), area, x + 1, y, b)

SetEach(s, area, b) == SetEachFrom(s, area, area.origin.x, area.origin.y, b)

\* ------------------------------------------------------------------ claims
\* C1: in every state no operation aborted in, each in-range cell whose last write
\* (a set on it, or a fill_rect covering it) was not followed by a remove holds a
\* tile with the content of that write.
C1_LastWriteWins ==
    ~panicked =>
        \A c \in DOMAIN lastWrite :
            lastWrite[c] # NoWrite => Content(Cur, c) = lastWrite[c]

\* C2: no edit aborts; a set or remove at an out-of-range index changes nothing; a
\* fill_rect writes the in-range cells of its area and leaves every other cell as it was.
C2_OutOfRangeEditIsNoOp ==
    [][/\ ~panicked'
       /\ \A b \in TileBuilder :
            (is_out_of_tilemap_uvec(tilemap, b.index) /\ Set(b))
                => UNCHANGED <<tilemap, world>>
       /\ \A index \in UVec2 :
            (is_out_of_tilemap_uvec(tilemap, index) /\ Remove(index))
                => UNCHANGED <<tilemap, world>>
       /\ \A area \in FillArea, t \in TextureIndex :
            FillRect(area, FillBuilder(t)) =>
                \A c \in InRange(tilemap) :
                    IF InArea(c, area)
                    THEN Content(Cur', c) = t
                    ELSE get(tilemap', c) = get(tilemap, c)
      ]_vars

\* C3: every fill_rect step ends as set-per-cell would from the same state: both abort
\* or neither does, and every cell has the same content.
C3_FillRectIsSetPerCell ==
    [][\A area \in FillArea, t \in TextureIndex :
            FillRect(area, FillBuilder(t)) =>
                LET g == SetEach(Cur, area, FillBuilder(t))
                IN  panicked' = g.panicked /\ Obs(Cur') = Obs(g)
      ]_vars

\* C4: the live tile entities are exactly the entities held in the grid slots, and no
\* entity is held in two slots.
C4_LiveTilesAreTheSlots ==
    /\ DOMAIN world.tiles = Held
    /\ \A i, j \in 1..Len(tilemap.tiles) :
            (i # j /\ tilemap.tiles[i] # None) => tilemap.tiles[i] # tilemap.tiles[j]

\* a set has replaced a tile: the previous entity was despawned and its slot holds the new one
C4_Witness ==
    /\ lastOp.kind = "set"
    /\ despawned = 1
    /\ Cardinality(Held) = 1
    /\ world.next = 3

\* C5: remove(c) does not abort and leaves get(c) absent; on a cell that holds no tile,
\* or outside the map, it changes neither the slots nor the world.
C5_RemoveThenAbsent ==
    ~panicked =>
        \A index \in UVec2 :
            LET s == remove(Cur, index)
                r == get(s.tm, index)
            IN  /\ ~s.panicked
                /\ ~r.panic /\ r.value = None
                /\ (index \notin InRange(tilemap) \/ Content(Cur, index) = NoWrite)
                        => s = Cur

\* a remove has despawned the tile of an occupied cell, and get on that cell is absent
C5_Witness ==
    /\ lastOp.kind = "remove"
    /\ "index" \in DOMAIN lastOp
    /\ despawned = 1
    /\ get(tilemap, lastOp.index) = [panic |-> FALSE, value |-> None]

\* C6: get never aborts; outside the map it returns absent, inside the stored slot; a
\* freshly built tilemap returns absent everywhere.
C6_GetIsTotal ==
    \A index \in UVec2 :
        LET r == get(tilemap, index)
        IN  /\ ~r.panic
            /\ (index.x >= tilemap.size.x \/ index.y >= tilemap.size.y) => r.value = None
            /\ (index.x < tilemap.size.x /\ index.y < tilemap.size.y)
                    => r.value = tilemap.tiles[index.y * tilemap.size.x + index.x + 1]
            /\ lastOp.kind = "build" => r.value = None

\* an out-of-range index whose flat slot number lies inside the tile array and is occupied
C6_Witness ==
    \E index \in UVec2 :
        /\ index.x >= tilemap.size.x
        /\ index.y * tilemap.size.x + index.x < Len(tilemap.tiles)
        /\ tilemap.tiles[index.y * tilemap.size.x + index.x + 1] # None
        /\ get(tilemap, index).value = None

\* C7: from every reachable state, applying a set, remove or fill_rect a second time
\* with the same arguments leaves what the first application left: the same content
\* per coordinate and the same number of live tile entities.
C7_MutationsIdempotent ==
    ~panicked =>
        /\ \A b \in TileBuilder :
                \A s1 \in {set(Cur, b)} : ~s1.panicked =>
                    \A s2 \in {set(s1, b)} : ~s2.panicked /\ Obs(s2) = Obs(s1)
        /\ \A index \in UVec2 :
                \A s1 \in {remove(Cur, index)} : ~s1.panicked =>
                    \A s2 \in {remove(s1, index)} : ~s2.panicked /\ Obs(s2) = Obs(s1)
        /\ \A area \in FillArea, t \in TextureIndex :
                \A s1 \in {fill_rect(Cur, area, FillBuilder(t))} : ~s1.panicked =>
                    \A s2 \in {fill_rect(s1, area, FillBuilder(t))} :
                        ~s2.panicked /\ Obs(s2) = Obs(s1)

\* the same set was applied twice in a row and the second one replaced the first one's tile
C7_Witness ==
    /\ repeated
    /\ lastOp.kind = "set"
    /\ "b" \in DOMAIN lastOp
    /\ despawned = 1
    /\ Content(Cur, lastOp.b.index) = lastOp.b.texture_index

\* C8: the stages of a frame run in strict order: chunk culling after every extract
\* system, every prepare system after chunk culling, queue after every prepare system.
C8_StrictStageOrder ==
    /\ "cull_chunks" \in ran => ExtractSystems \subseteq ran
    /\ ran \cap (PrepareSystems \ {"cull_chunks"}) # {} => "cull_chunks" \in ran
    /\ ran \cap QueueSystems # {} => PrepareSystems \subseteq ran

\* C9: a tilemap with a texture keeps its WaitForTextureUsageChange marker while its
\* image is not loaded; a run of set_texture_usage never panics and leaves such a
\* tilemap and its image as they were; the marker goes only in a step after which the
\* image is loaded with COPY_SRC, or from a tilemap without texture; and once the image
\* is loaded the marker is eventually removed.
C9_PendingUntilImageLoaded ==
    /\ [](\A id \in TilemapIds :
            (/\ built[id].built
             /\ built[id].texture # NoTexture
             /\ ~images[built[id].texture].loaded) => built[id].waiting)
    /\ []~usagePanic
    /\ [][\A id \in TilemapIds :
            /\ (built[id].waiting /\ ~built'[id].waiting) =>
                    \/ built[id].texture = NoTexture
                    \/ /\ images'[built[id].texture].loaded
                       /\ images'[built[id].texture].copy_src
            /\ (/\ SetTextureUsage
                /\ built[id].waiting
                /\ built[id].texture # NoTexture
                /\ ~images[built[id].texture].loaded) =>
                    /\ built'[id] = built[id]
                    /\ images'[built[id].texture] = images[built[id].texture]
       ]_vars
    /\ \A id \in TilemapIds :
            (/\ built[id].waiting
             /\ built[id].texture # NoTexture
             /\ images[built[id].texture].loaded) ~> ~built[id].waiting

\* one textured tilemap lost its marker after its image got COPY_SRC, while another
\* one still waits for an image that is not loaded
C9_Witness ==
    \E id, other \in TilemapIds :
        /\ built[id].built /\ built[id].texture # NoTexture /\ ~built[id].waiting
        /\ images[built[id].texture].copy_src
        /\ built[other].built /\ built[other].texture # NoTexture /\ built[other].waiting
        /\ ~images[built[other].texture].loaded
\* C10: when the Prepare set of a frame is through, every chunk rebuilt in the frame is
\* one this frame's culling marked visible, every chunk that began the frame dirty and
\* is visible has been rebuilt, and every other chunk that began the frame dirty still is.
C10_DirtyUntilVisibleRebuild ==
    PrepareSystems \subseteq ran =>
        \A c \in Chunks :
            /\ c \in rebuilt => c \in inView
            /\ (c \in startDirty /\ c \in visible) => c \in rebuilt
            /\ (c \in startDirty /\ c \notin rebuilt) => c \in dirty

\* C13: on an isometric tilemap index_to_world maps cell (x, y) to
\* ((x - y)/2 * render_size.x + translation.x, (x + y + 1)/2 * render_size.y +
\* translation.y); with render_size (32, 16) and no translation cell (0, 0) maps to
\* (0, 8) and cell (1, 0) to (16, 16).
C13_IsometricIndexToWorld ==
    (ret.fn = "index_to_world" /\ args.tile_type = "IsometricDiamond") =>
        LET x == args.index.x
            y == args.index.y
            rs == args.tile_render_size
            t == args.translation
        IN  /\ 2 * (ret.value.x2 - t.x2) = (x - y) * rs.x2
            /\ 2 * (ret.value.y2 - t.y2) = (x + y + 1) * rs.y2
            /\ (rs = Vec2(32, 16) /\ t = Vec2(0, 0)) =>
                    /\ (x = 0 /\ y = 0) => ret.value = Vec2(0, 8)
                    /\ (x = 1 /\ y = 0) => ret.value = Vec2(16, 16)

\* index_to_world returned (16, 16) for cell (1, 0) of an isometric tilemap with
\* render_size (32, 16) and no translation
C13_Witness ==
    /\ ret.fn = "index_to_world"
    /\ args.tile_type = "IsometricDiamond"
    /\ args.tile_render_size = Vec2(32, 16)
    /\ args.translation = Vec2(0, 0)
    /\ args.index = [x |-> 1, y |-> 0]
    /\ ret.value = Vec2(16, 16)

\* C15 as stated: instantiate aborts when the identifier is not registered and
\* ignore_unregistered_entities is false, and aborts when one of the tags is not
\* registered and ignore_unregistered_entity_tags is false; with the respective flag
\* set it does not abort, and for an unregistered identifier it adds nothing.
C15_MissingRegistrationAborts ==
    ret.fn = "instantiate" =>
        LET unregistered == args.identifier \notin EntityRegistry
            bad_tag == \E i \in 1..Len(args.tags) : args.tags[i] \notin EntityTagRegistry
            r == ret.value
        IN  /\ (unregistered /\ ~args.config.ignore_unregistered_entities) => r.panic
            /\ (bad_tag /\ ~args.config.ignore_unregistered_entity_tags) => r.panic
            /\ (unregistered /\ args.config.ignore_unregistered_entities) => ~r.panic
            /\ (~unregistered /\ args.config.ignore_unregistered_entity_tags) => ~r.panic
            /\ (unregistered /\ ~r.panic) => (r.added = <<>> /\ ~r.spawned)

\* C15 as amended: the abort on an unregistered tag happens for an entity whose
\* identifier is registered; an entity with an unregistered identifier aborts exactly
\* when ignore_unregistered_entities is false, whatever its tags, and gets nothing added.
C15_MissingRegistrationAbortsAmended ==
    ret.fn = "instantiate" =>
        LET unregistered == args.identifier \notin EntityRegistry
            bad_tag == \E i \in 1..Len(args.tags) : args.tags[i] \notin EntityTagRegistry
            r == ret.value
        IN  /\ unregistered => (r.panic <=> ~args.config.ignore_unregistered_entities)
            /\ unregistered => (r.added = <<>> /\ ~r.spawned)
            /\ ~unregistered =>
                    (r.panic <=> (bad_tag /\ ~args.config.ignore_unregistered_entity_tags))
            /\ (~unregistered /\ ~r.panic) =>
                    /\ r.spawned
                    /\ r.added = SelectSeq(args.tags, LAMBDA tag : tag \in EntityTagRegistry)

\* instantiate aborted on the unregistered second tag of a registered entity
C15_Witness ==
    /\ ret.fn = "instantiate"
    /\ args.identifier \in EntityRegistry
    /\ args.tags = <<"actor", "unknown">>
    /\ ~args.config.ignore_unregistered_entity_tags
    /\ ret.value.panic
    /\ ret.value.added = <<"actor">>

\* C18: build aborts exactly when the safety check is on and the chunks needed to cover
\* the map number more than 100; otherwise it yields a tilemap of size.x * size.y
\* empty slots. A builder from new has the safety check on.
C18_SafetyCheckLimit ==
    /\ \A size \in BuildSizes : new(size).safety_check
    /\ ret.fn = "build" =>
            LET b == args.builder
                columns == {x \div b.render_chunk_size : x \in 0..(b.size.x - 1)}
                rows == {y \div b.render_chunk_size : y \in 0..(b.size.y - 1)}
                chunks == Cardinality(columns) * Cardinality(rows)
            IN  /\ ret.value.panic <=> (b.safety_check /\ chunks > 100)
                /\ ~ret.value.panic =>
                        /\ ret.value.tilemap.size = b.size
                        /\ Len(ret.value.tilemap.tiles) = b.size.x * b.size.y
                        /\ \A i \in 1..Len(ret.value.tilemap.tiles) :
                                ret.value.tilemap.tiles[i] = None

\* build went through on a map of exactly 100 chunks with the safety check on
C18_Witness ==
    /\ ret.fn = "build"
    /\ args.builder.safety_check
    /\ args.builder.size = [x |-> 10, y |-> 10]
    /\ args.builder.render_chunk_size = 1
    /\ ~ret.value.panic
    /\ Len(ret.value.tilemap.tiles) = 100

\* C14: set_tile aborts whenever a tile instance would mix a static layer and an
\* animation in one cell: a further tile on a cell that holds an animated tile, and a
\* tile whose texture index is mapped to an animation on a cell that holds static
\* layers; the cell is never left holding the mapped index as a static layer.
C14_LayerAnimationConflictAborts ==
    lastTile.kind = "set_tile" =>
        /\ lastTile.before = "animated" => layerPanic
        /\ (lastTile.before = "static" /\ lastTile.tile_id \in AnimationMapper)
                => layerPanic
        /\ \A cell \in DOMAIN pattern :
                pattern[cell].kind = "static" =>
                    \A i \in 2..Len(pattern[cell].layers) :
                        pattern[cell].layers[i] \notin AnimationMapper

\* the entities held in loaded_levels
LoadedEntities(mgr) == {mgr.loaded_levels[l] : l \in DOMAIN mgr.loaded_levels}

\* C16: on an initialized manager load(level) aborts whenever a level is loaded, leaving
\* loaded_levels as it was, and otherwise records exactly that level with one newly
\* spawned LdtkLoader entity; try_load loads and returns true exactly when no level is
\* loaded, and otherwise returns false without changing, spawning or aborting.
C16_LoadWhileLoadedAborts ==
    LET h == mgrHist
        none_loaded == DOMAIN h.before.loaded_levels = {}
        loaded_it ==
            /\ ~mgrPanic
            /\ DOMAIN manager.loaded_levels = {h.arg}
            /\ manager.loaded_levels[h.arg] = h.wbefore.next
            /\ mgrWorld.loader = Put(h.wbefore.loader, h.wbefore.next, h.arg)
            /\ mgrWorld.next = h.wbefore.next + 1
            /\ mgrWorld.unloader = h.wbefore.unloader
    IN  /\ (h.kind = "load" /\ h.before.initialized) =>
                IF none_loaded THEN loaded_it
                ELSE mgrPanic /\ manager = h.before /\ mgrWorld = h.wbefore
        /\ (h.kind = "try_load" /\ h.before.initialized) =>
                IF none_loaded THEN loaded_it /\ h.ret = TRUE
                ELSE /\ ~mgrPanic /\ h.ret = FALSE
                     /\ manager = h.before /\ mgrWorld = h.wbefore

\* a load was refused with a panic because another level was loaded
C16_Witness ==
    /\ mgrHist.kind = "load"
    /\ mgrHist.before.initialized
    /\ DOMAIN mgrHist.before.loaded_levels = {"a"}
    /\ mgrHist.arg = "b"
    /\ mgrPanic

\* C17: load_many and try_load_many abort if any level has been loaded before on this
\* manager, even if every such level has been unloaded since.
C17_LoadManyAfterLoadAborts ==
    (/\ mgrHist.kind \in {"load_many", "try_load_many"}
     /\ mgrHist.before.initialized
     /\ mgrHist.everBefore) => mgrPanic

\* C19: on a manager that is not initialized, load, try_load, switch_to, load_many,
\* try_load_many, get_cached_data and get_ldtk_assets abort before they change
\* loaded_levels or spawn anything; a manager that new returns is initialized.
C19_UninitializedAborts ==
    /\ (/\ mgrHist.kind \in {"load", "try_load", "switch_to", "load_many",
                              "try_load_many", "get_cached_data", "get_ldtk_assets"}
        /\ ~mgrHist.before.initialized) =>
            /\ mgrPanic
            /\ manager = mgrHist.before
            /\ mgrWorld = mgrHist.wbefore
    /\ \A readable \in BOOLEAN :
            ~manager_new(readable).panic => is_initialized(manager_new(readable).mgr)
    /\ (mgrHist.kind = "initialize" /\ ~mgrPanic) => is_initialized(manager)

\* load_many was called on a manager without parsed json and panicked
C19_Witness ==
    /\ mgrHist.kind = "load_many"
    /\ mgrHist.arg = <<"a", "b">>
    /\ ~mgrHist.before.initialized
    /\ mgrPanic

\* C20: unload of a level that is not loaded changes nothing; unload of a loaded level
\* inserts LdtkUnloader on its entity and removes exactly that level; unload_all marks
\* the entity of every loaded level and empties loaded_levels; every entity that has
\* left loaded_levels carries LdtkUnloader.
C20_UnloadMarksEntity ==
    LET h == mgrHist
        was == h.before.loaded_levels
    IN  /\ h.kind = "unload" =>
                /\ ~mgrPanic
                /\ IF h.arg \in DOMAIN was
                   THEN /\ manager.loaded_levels = Drop(was, h.arg)
                        /\ mgrWorld.unloader = h.wbefore.unloader \cup {was[h.arg]}
                   ELSE manager = h.before /\ mgrWorld = h.wbefore
        /\ h.kind = "unload_all" =>
                /\ ~mgrPanic
                /\ manager.loaded_levels = <<>>
                /\ mgrWorld.unloader = h.wbefore.unloader \cup LoadedEntities(h.before)
        /\ \A e \in DOMAIN mgrWorld.loader :
                e \notin LoadedEntities(manager) => e \in mgrWorld.unloader

\* unload took one of two loaded levels out of loaded_levels and marked its entity
C20_Witness ==
    /\ mgrHist.kind = "unload"
    /\ DOMAIN mgrHist.before.loaded_levels = {"a", "b"}
    /\ DOMAIN manager.loaded_levels = {"b"}
    /\ mgrHist.before.loaded_levels["a"] \in mgrWorld.unloader
    /\ mgrHist.before.loaded_levels["b"] \notin mgrWorld.unloader

\* C25: a manager driven through load, try_load, switch_to, unload and unload_all only
\* holds at most one level in loaded_levels, whatever the calls were.
C25_AtMostOneLevel ==
    Cardinality(DOMAIN manager.loaded_levels) <= 1

\* switch_to has just replaced the loaded level by another one
C25_Witness ==
    /\ mgrHist.kind = "switch_to"
    /\ ~mgrPanic
    /\ DOMAIN mgrHist.before.loaded_levels # {}
    /\ DOMAIN manager.loaded_levels = {mgrHist.arg}
    /\ mgrHist.arg \notin DOMAIN mgrHist.before.loaded_levels

\* cell d reads the same after the step as before it, and a tile entity stored at d is
\* still alive
Untouched(d) ==
    /\ get(tilemap', d) = get(tilemap, d)
    /\ get(tilemap, d).value # None => get(tilemap, d).value \in DOMAIN world'.tiles

\* C24: set(c) and remove(c) leave every cell other than c as it was, and fill_rect(area)
\* every cell outside area, whether or not area lies inside the map: get reads the same
\* there and no tile entity stored there is despawned.
C24_EditsTouchOnlyTargets ==
    [][/\ \A b \in TileBuilder :
            Set(b) => \A d \in UVec2 : d # b.index => Untouched(d)
       /\ \A index \in UVec2 :
            Remove(index) => \A d \in UVec2 : d # index => Untouched(d)
       /\ \A area \in FillArea, t \in TextureIndex :
            FillRect(area, FillBuilder(t)) =>
                \A d \in UVec2 : ~InArea(d, area) => Untouched(d)
      ]_vars

\* the positions of the tileset definitions whose first_gid is at most gid
Owners(tileset_defs, gid) == {i \in DOMAIN tileset_defs : tileset_defs[i] <= gid}

\* C23: for a map with one or more tilesets and a gid no smaller than the smallest
\* first_gid, get_tileset returns a tileset whose first_gid is the greatest one that is
\* at most gid, together with that first_gid.
C23_GetTilesetOwnsGid ==
    (ret.fn = "get_tileset" /\ Owners(args.tileset_defs, args.gid) # {}) =>
        /\ ~ret.value.panic
        /\ \A i \in Owners(args.tileset_defs, args.gid) :
                args.tileset_defs[i] <= ret.value.first_gid
        /\ \E i \in Owners(args.tileset_defs, args.gid) :
                /\ args.tileset_defs[i] = ret.value.first_gid
                /\ ret.value.tileset = [name |-> i]

\* the entities loaded_levels names
TiledLoadedEntities(mgr) == {mgr.loaded_levels[l] : l \in DOMAIN mgr.loaded_levels}

\* C21: a load of a map that is loaded already leaves loaded_levels as it was and spawns
\* nothing; every loaded map name has exactly one TiledLoader entity that carries no
\* TiledUnloader, the one loaded_levels names; and every TiledLoader entity that
\* loaded_levels no longer names carries TiledUnloader.
C21_TiledLoadedLevelsConsistent ==
    /\ (tiledHist.kind = "load" /\ tiledHist.arg \in DOMAIN tiledHist.before.loaded_levels) =>
            /\ ~tiledPanic
            /\ tiledMgr.loaded_levels = tiledHist.before.loaded_levels
            /\ tiledWorld = tiledHist.wbefore
    /\ \A l \in DOMAIN tiledMgr.loaded_levels :
            {e \in (DOMAIN tiledWorld.loader) \ tiledWorld.unloader : tiledWorld.loader[e] = l}
                = {tiledMgr.loaded_levels[l]}
    /\ \A e \in DOMAIN tiledWorld.loader :
            e \notin TiledLoadedEntities(tiledMgr) => e \in tiledWorld.unloader

\* a load of a loaded map, in a run that has unloaded a map before
C21_Witness ==
    /\ tiledHist.kind = "load"
    /\ tiledHist.arg \in DOMAIN tiledHist.before.loaded_levels
    /\ tiledWorld.unloader # {}

\* C22: load and switch_to abort exactly when is_initialized() was false at the call.
C22_CheckAgreesWithIsInitialized ==
    tiledHist.kind \in {"load", "switch_to"} =>
        (tiledPanic <=> ~tiled_is_initialized(tiledHist.before))

====
